---- MODULE Spec2Model ----
(***************************************************************************)
(* A model of humanhash (src/humanhash.py): the HumanHasher class with its *)
(* constructor, humanize, compress and uuid, and the module-level default  *)
(* hasher.  The code is Python 2 (xrange, the builtin reduce, map          *)
(* returning a list); Python str values are TLA+ strings, Python lists and *)
(* tuples are sequences, and an object reference is the name of the        *)
(* object.                                                                 *)
(***************************************************************************)
EXTENDS Integers, Sequences, FiniteSets, TLC

VARIABLES
  lists,     \* the caller-owned mutable list objects: name -> contents
  hashers,   \* the HumanHasher instances: hashers[k].wordlist is a reference
  supplied,  \* history: the contents hashers[k] was given at construction
  last       \* the call whose outcome the caller holds: operation, arguments, outcome

vars == <<lists, hashers, supplied, last>>

(***************************************************************************)
(* Bounds of the model.                                                    *)
(***************************************************************************)
\* Longest list of bytes enumerated exhaustively as an input of compress.
MaxLen == 3
\* Largest target (number of output bytes / words) a caller asks for.
MaxTarget == 17
\* Longest prefix of a seed digest handed to humanize.
MaxHexLen == 22
\* How many hashers are constructed besides the module-level default.
MaxHashers == 1
\* How many list objects the callers create.
MaxLists == 1
\* How many offsets the random source of uuid4 is started from.
MaxSeed == 2

(***************************************************************************)
(* Python values and builtins.                                             *)
(***************************************************************************)
Min(a, b) == IF a < b THEN a ELSE b

\* The outcome of a call: a returned value or a raised exception.
Return(v) == [status |-> "return", exc |-> "", msg |-> "", value |-> v]
Raise(e, m) == [status |-> "raise", exc |-> e, msg |-> m, value |-> <<>>]

\* s[start:stop] for 0 <= start: a new sequence, the indices clamped to len(s).
Slice(s, start, stop) == SubSeq(s, Min(start, Len(s)) + 1, Min(stop, Len(s)))

\* a // b for b # 0: the floor of the quotient.
FloorDiv(a, b) == IF b > 0 THEN a \div b ELSE (-a) \div (-b)

\* operator.xor on two non-negative integers.
RECURSIVE xor(_, _)
xor(a, b) ==
  IF a = 0 THEN b
  ELSE IF b = 0 THEN a
  ELSE (((a % 2) + (b % 2)) % 2) + 2 * xor(a \div 2, b \div 2)

\* reduce(f, seq, initial) with f = operator.xor.
RECURSIVE reduce_xor(_, _)
reduce_xor(seq, initial) ==
  IF seq = <<>> THEN initial ELSE reduce_xor(Tail(seq), xor(initial, Head(seq)))

\* s[start::2] of a str: every second character from the 0-based index start.
RECURSIVE EveryOther(_, _)
EveryOther(s, start) ==
  IF start >= Len(s) THEN ""
  ELSE SubSeq(s, start + 1, start + 1) \o EveryOther(s, start + 2)

\* zip(a, b) of two strs, each pair joined by ''.join: as many two-character
\* strings as the shorter one has characters.
zip_join(a, b) == [i \in 1..Min(Len(a), Len(b)) |-> SubSeq(a, i, i) \o SubSeq(b, i, i)]

HexDigits == "0123456789abcdef"

\* The value of one character as a base-16 digit, -1 when it is none.
DigitValue(c) ==
  CASE c = "0" -> 0
    [] c = "1" -> 1
    [] c = "2" -> 2
    [] c = "3" -> 3
    [] c = "4" -> 4
    [] c = "5" -> 5
    [] c = "6" -> 6
    [] c = "7" -> 7
    [] c = "8" -> 8
    [] c = "9" -> 9
    [] c = "a" -> 10
    [] c = "b" -> 11
    [] c = "c" -> 12
    [] c = "d" -> 13
    [] c = "e" -> 14
    [] c = "f" -> 15
    [] c = "A" -> 10
    [] c = "B" -> 11
    [] c = "C" -> 12
    [] c = "D" -> 13
    [] c = "E" -> 14
    [] c = "F" -> 15
    [] OTHER -> -1

\* Whether int(x, 16) accepts x, for x made of letters and digits.
IsBase16(x) == x # "" /\ \A i \in 1..Len(x) : DigitValue(SubSeq(x, i, i)) >= 0

\* int(x, 16) for an accepted x.
RECURSIVE int16(_)
int16(x) ==
  IF x = "" THEN 0
  ELSE int16(SubSeq(x, 1, Len(x) - 1)) * Len(HexDigits)
         + DigitValue(SubSeq(x, Len(x), Len(x)))

\* separator.join(words).
RECURSIVE join(_, _)
join(separator, words) ==
  IF words = <<>> THEN ""
  ELSE IF Len(words) = 1 THEN Head(words)
  ELSE Head(words) \o separator \o join(separator, Tail(words))

\* s.replace(old, '') for a one-character old.
RECURSIVE replace_away(_, _)
replace_away(s, old) ==
  IF s = "" THEN ""
  ELSE (IF SubSeq(s, 1, 1) = old THEN "" ELSE SubSeq(s, 1, 1))
         \o replace_away(Tail(s), old)

\* '%02x' % byte, the two lower-case hex digits of a byte.
hex2(byte) ==
  SubSeq(HexDigits, (byte \div Len(HexDigits)) + 1, (byte \div Len(HexDigits)) + 1)
    \o SubSeq(HexDigits, (byte % Len(HexDigits)) + 1, (byte % Len(HexDigits)) + 1)

(***************************************************************************)
(* The default wordlist, a tuple of 256 words.                             *)
(***************************************************************************)
DEFAULT_WORDLIST ==
  <<
    "nlp", "nosql", "photoshop", "saas", "xcode", "sqlserver", "hadoop",
    "data-scientist", "mysql", "ninja", "openstack", "visual-studio", "code-review",
    "integrity", "mobile-app", "developer", "xml", "native-app", "apache-cordova",
    "candidate", "mumbai", "analytics", "flash", "cdns", "celery", "usability",
    "equity", "localizations", "junit", "css3", "activities", "meteor", "iit-bombay",
    "python", "evaluate", "rake", "postgis", "psd", "functional", "appstore",
    "background", "jenkins", "web-sockets", "excellent-negotiating", "mocha",
    "java-script", "ie9", "storyboard", "open-source", "data-mining", "make",
    "rabbitmq", "server", "digital-media", "scalable-architecture", "team", "mapkit",
    "security", "cms", "rack", "detailed-job", "crm", "front-end",
    "javascript-engineers", "foundation", "adobe", "rockstar", "dilbert",
    "android-sdks", "twitter", "startup", "job-requirements", "iim-calcutta", "layouts",
    "growth", "design", "kickass", "reviewer", "team-player", "postgres",
    "social-networks", "expert", "phonegap", "android-studio", "redis", "angular-js",
    "version", "seo-", "cakephp", "full-stack", "backend", "jasmin", "core",
    "hibernate", "java-programming", "business", "web", "internship", "aws",
    "javascript", "jasmine", "iconic", "web-developer", "tdd", "ajax", "china", "html5",
    "ubuntu", "apache", "strong", "graphic-designer", "laravel", "pune", "web-servcies",
    "postgresql", "constraint", "php-developer", "industry", "experience", "keen",
    "joomla", "mvc", "elasticsearch", "adobe-photoshop", "sass", "ionic", "new-delhi",
    "vacation-policy", "apple", "social-media", "devops", "cocoa", "unix", "api",
    "linux", "sounds", "ios-developer", "engineer", "iim-bangalore", "git", "java",
    "codeigniter", "free", "software-developer", "nosql-db", "perl", "json",
    "wordpress", "iphone", "criteria", "widgets", "mks", "lean-practices", "energy",
    "big-data-analytics", "define", "function", "iit", "newsletters", "company",
    "memory", "j2ee", "rspec", "ec2", "iit-delhi", "grunt", "ruby", "sdk", "jquery",
    "project-manager", "analyze", "illustrator", "tomcat", "embedded", "web-app",
    "rest-api", "work", "eclipse", "objective-c", "senior-architect", "lead", "lucene",
    "frameworks", "compensation", "open-gl", "stock-options", "jquery-mobile", "nashik",
    "android-apis", "restful", "requirejs", "user-interface", "sqlite", "documentation",
    "mongo", "springmvc", "big-data", "india", "sales", "linkedin", "koramangala",
    "iit-kanpur", "ansible", "expertise", "angularjs", "silicon-valley", "technology",
    "html-designer", "ipad-developer", "adwords", "webgl", "firmware", "vagrant",
    "indiranagar", "phonegap-developer", "ceo", "html", "esops", "machine-learning",
    "online", "performance", "android", "pandas", "css", "karma", "node", "gurgaon",
    "bonus", "mongodb", "senior-ux", "ios", "scalability", "mouth", "plan", "sql",
    "services", "tech-lead", "php", "data", "svn", "paas", "designers", "github",
    "technical-lead", "algorithm", "database", "url", "bootstrap", "san-francisco",
    "django", "client", "advocacy", "databases", "coordinate", "frontend-developers",
    "mac-os"
  >>

\* A caller's own 256-word tuple: 'w00' ... 'wff'.
ALT_WORDLIST == [i \in 1..Len(DEFAULT_WORDLIST) |-> "w" \o hex2(i - 1)]

\* The immutable tuples a caller can pass as a wordlist, by name: the default,
\* one of the caller's own, one word short (255) and one word long (257).
Tuples ==
  [ DEFAULT_WORDLIST |-> DEFAULT_WORDLIST,
    alt |-> ALT_WORDLIST,
    short |-> SubSeq(DEFAULT_WORDLIST, 1, Len(DEFAULT_WORDLIST) - 1),
    long |-> Append(DEFAULT_WORDLIST, "extra") ]

TupleNames == DOMAIN Tuples
\* The names of the list objects, in the order the callers create them.
ListNames == <<"wl1", "wl2", "wl3">>

\* The contents of the object a reference names.
Deref(ref) == IF ref \in TupleNames THEN Tuples[ref] ELSE lists[ref]

(***************************************************************************)
(* HumanHasher.compress                                                    *)
(***************************************************************************)
\* checksum = lambda bytes: reduce(operator.xor, bytes, 0)
checksum(bytes) == reduce_xor(bytes, 0)

\* A variant of the test of line 76 that also refuses target == length.
fewer_input_ge(target, length) == target >= length

\* if target > length
fewer_input(target, length) == target > length

\* A variant of line 84's argument that forgets the left-over bytes.
leftover_none(bytes, target, seg_size) == <<>>

\* bytes[target * seg_size:]
leftover(bytes, target, seg_size) == Slice(bytes, target * seg_size, Len(bytes))

\* A variant of compress that builds its segments by popping the bytes off
\* the caller's list, which it leaves empty.
compress_consuming(bytes, target) ==
  LET length == Len(bytes) IN
  IF fewer_input(target, length)
  THEN [out |-> Raise("ValueError", "Fewer input bytes than requested output"),
        bytes |-> bytes]
  ELSE IF target = 0
  THEN [out |-> Raise("ZeroDivisionError", "integer division or modulo by zero"),
        bytes |-> bytes]
  ELSE
    LET seg_size == FloorDiv(length, target)
        segments == [i \in 1..target |->
                       Slice(bytes, (i - 1) * seg_size, i * seg_size)]
    IN IF segments = <<>>
       THEN [out |-> Raise("IndexError", "list index out of range"), bytes |-> bytes]
       ELSE
         LET extended == [segments EXCEPT
                            ![Len(segments)] = @ \o leftover(bytes, target, seg_size)]
             checksums == [i \in 1..Len(extended) |-> checksum(extended[i])]
         IN [out |-> Return(checksums), bytes |-> <<>>]

\* A variant of compress that extends the last segment only if there is one.
compress_guarded(bytes, target) ==
  LET length == Len(bytes) IN
  IF fewer_input(target, length)
  THEN [out |-> Raise("ValueError", "Fewer input bytes than requested output"),
        bytes |-> bytes]
  ELSE IF target = 0
  THEN [out |-> Raise("ZeroDivisionError", "integer division or modulo by zero"),
        bytes |-> bytes]
  ELSE
    LET seg_size == FloorDiv(length, target)
        segments == [i \in 1..target |->
                       Slice(bytes, (i - 1) * seg_size, i * seg_size)]
        extended == IF segments = <<>> THEN segments
                    ELSE [segments EXCEPT
                            ![Len(segments)] = @ \o leftover(bytes, target, seg_size)]
        checksums == [i \in 1..Len(extended) |-> checksum(extended[i])]
    IN [out |-> Return(checksums), bytes |-> bytes]

\* compress(bytes, target): the outcome of the call and the contents of the
\* caller's list `bytes` after it.  The slices of lines 81 and 84 are new
\* lists, so extending the last segment leaves `bytes` as it was; xrange of a
\* negative target is empty, and segments[-1] of no segments is an IndexError.
compress(bytes, target) ==
  LET length == Len(bytes) IN
  IF fewer_input(target, length)
  THEN [out |-> Raise("ValueError", "Fewer input bytes than requested output"),
        bytes |-> bytes]
  ELSE IF target = 0
  THEN [out |-> Raise("ZeroDivisionError", "integer division or modulo by zero"),
        bytes |-> bytes]
  ELSE
    LET seg_size == FloorDiv(length, target)
        segments == [i \in 1..target |->
                       Slice(bytes, (i - 1) * seg_size, i * seg_size)]
    IN IF segments = <<>>
       THEN [out |-> Raise("IndexError", "list index out of range"), bytes |-> bytes]
       ELSE
         LET extended == [segments EXCEPT
                            ![Len(segments)] = @ \o leftover(bytes, target, seg_size)]
             checksums == [i \in 1..Len(extended) |-> checksum(extended[i])]
         IN [out |-> Return(checksums), bytes |-> bytes]

(***************************************************************************)
(* HumanHasher.__init__                                                    *)
(***************************************************************************)
\* A variant of the constructor that refuses only the wordlists too short.
HumanHasher_init_short(wordlist) ==
  IF Len(Deref(wordlist)) < 256
  THEN Raise("ValueError", "Wordlist must have exactly 256 items")
  ELSE Return([wordlist |-> wordlist])

\* HumanHasher(wordlist): the new instance, whose attribute holds the
\* reference it was passed (no copy is taken), or the ValueError.
HumanHasher_init(wordlist) ==
  IF Len(Deref(wordlist)) # 256
  THEN Raise("ValueError", "Wordlist must have exactly 256 items")
  ELSE Return([wordlist |-> wordlist])

(***************************************************************************)
(* HumanHasher.humanize                                                    *)
(***************************************************************************)
\* The keyword arguments of a call: the names given and their values (a
\* value whose name is not given is not read).
Kwargs(given, words, separator) ==
  [given |-> given, words |-> words, separator |-> separator]

\* Lines 49-50: the byte values of the pairs of hex characters.
parse(hexdigest) ==
  LET pairs == zip_join(EveryOther(hexdigest, 0), EveryOther(hexdigest, 1)) IN
  IF \E i \in 1..Len(pairs) : ~IsBase16(pairs[i])
  THEN Raise("ValueError", "invalid literal for int() with base 16")
  ELSE Return([i \in 1..Len(pairs) |-> int16(pairs[i])])

\* A variant of humanize that indexes the wordlist one place too far.
humanize_shifted(self, hexdigest, params) ==
  IF ~(params.given \subseteq {"words", "separator"})
  THEN Raise("TypeError", "humanize() got an unexpected keyword argument")
  ELSE
    LET words == IF "words" \in params.given THEN params.words ELSE 4
        separator == IF "separator" \in params.given THEN params.separator ELSE "-"
        wordlist == Deref(self.wordlist)
        bytes == parse(hexdigest)
    IN IF bytes.status = "raise" THEN bytes
       ELSE
         LET compressed == compress(bytes.value, words).out IN
         IF compressed.status = "raise" THEN compressed
         ELSE IF \E i \in 1..Len(compressed.value) :
                   compressed.value[i] + 1 >= Len(wordlist)
         THEN Raise("IndexError", "index out of range")
         ELSE Return(join(separator, [i \in 1..Len(compressed.value) |->
                                        wordlist[compressed.value[i] + 2]]))

\* humanize(self, hexdigest, words=, separator=) with the defaults of line 35; the
\* wordlist is the object self.wordlist names, as it is at the call.
humanize(self, hexdigest, params) ==
  IF ~(params.given \subseteq {"words", "separator"})
  THEN Raise("TypeError", "humanize() got an unexpected keyword argument")
  ELSE
    LET words == IF "words" \in params.given THEN params.words ELSE 4
        separator == IF "separator" \in params.given THEN params.separator ELSE "-"
        wordlist == Deref(self.wordlist)
        bytes == parse(hexdigest)
    IN IF bytes.status = "raise" THEN bytes
       ELSE
         LET compressed == compress(bytes.value, words).out IN
         IF compressed.status = "raise" THEN compressed
         ELSE IF \E i \in 1..Len(compressed.value) :
                   compressed.value[i] >= Len(wordlist)
         THEN Raise("IndexError", "index out of range")
         ELSE Return(join(separator, [i \in 1..Len(compressed.value) |->
                                        wordlist[compressed.value[i] + 1]]))

(***************************************************************************)
(* HumanHasher.uuid                                                        *)
(***************************************************************************)
\* uuidlib.uuid4() from 16 random bytes: version 4 in the high nibble of
\* byte 6, the RFC 4122 variant in the top two bits of byte 8.
uuid4(random) ==
  [i \in 1..Len(random) |->
     IF i = 7 THEN (random[i] % 16) + 64
     ELSE IF i = 9 THEN (random[i] % 64) + 128
     ELSE random[i]]

\* '%032x' % int: the lower-case hex digits of the bytes.
RECURSIVE hex(_)
hex(bytes) == IF bytes = <<>> THEN "" ELSE hex2(Head(bytes)) \o hex(Tail(bytes))

\* str(UUID): the hex digits in groups of 8-4-4-4-12.
str_uuid(u) ==
  LET h == hex(u) IN
  SubSeq(h, 1, 8) \o "-" \o SubSeq(h, 9, 12) \o "-" \o SubSeq(h, 13, 16)
    \o "-" \o SubSeq(h, 17, 20) \o "-" \o SubSeq(h, 21, Len(h))

\* A variant of uuid that humanizes with the defaults whatever it is asked.
uuid_defaults(self, random, params) ==
  LET digest == replace_away(str_uuid(uuid4(random)), "-")
      human == humanize(self, digest, Kwargs({}, 0, ""))
  IN IF human.status = "raise" THEN human ELSE Return(<<human.value, digest>>)

\* uuid(self, words=, separator=), the random bytes being those uuid4 draws.
uuid(self, random, params) ==
  LET digest == replace_away(str_uuid(uuid4(random)), "-")
      human == humanize(self, digest, params)
  IN IF human.status = "raise" THEN human ELSE Return(<<human.value, digest>>)

(***************************************************************************)
(* The inputs the callers draw from.                                       *)
(***************************************************************************)
\* The list of the doctest of compress (line 62).
DoctestBytes == <<96, 173, 141, 13, 135, 27, 96, 149, 128, 130, 151>>
\* The digest of the doctest of humanize (line 43): the same eleven bytes.
DoctestDigest == "60ad8d0d871b6095808297"

ByteChoices == {0, 173, 255}

\* Every list of at most MaxLen bytes of ByteChoices, and the doctest's list
\* cut to each length.
ByteLists ==
  UNION {[1..n -> ByteChoices] : n \in 0..MaxLen}
    \cup {SubSeq(DoctestBytes, 1, n) : n \in 0..Len(DoctestBytes)}

Targets == (-2)..MaxTarget

\* Hex strings: the doctest's digest, one with upper-case digits and zero
\* bytes, one with a character that is no hex digit; each cut to every length
\* up to MaxHexLen, the odd lengths included.
SeedDigests ==
  { DoctestDigest \o "c3e1", "00FFa5A5DEADbeef", "0f1Eg0aB00" }

Digests == {SubSeq(d, 1, Min(n, Len(d))) : d \in SeedDigests, n \in 0..MaxHexLen}

Separators == {"-", "_", ""}

KwargsSets ==
  {Kwargs({}, 0, ""), Kwargs({"sep"}, 0, "")}
    \cup {Kwargs({"words"}, w, "") : w \in Targets \ {-2}}
    \cup {Kwargs({"separator"}, 0, s) : s \in Separators}
    \cup {Kwargs({"words", "separator"}, w, s) : w \in Targets \ {-2}, s \in Separators}

\* What os.urandom(16) may hand to uuid4.
Urandom16 ==
  {[i \in 1..16 |-> (a * i + 85 * b) % 256] : a \in {0, 17, 101}, b \in 0..MaxSeed}

\* What the callers of the hasher-lifetime specification use.
SmallDigests == {"cd80", "cd8"}
SmallKwargs == {Kwargs({"words"}, 1, ""), Kwargs({"words"}, 2, "")}
SetIndexes == {205}
SetWords == {"zulu"}

(***************************************************************************)
(* The state machine.                                                      *)
(***************************************************************************)
NoOutcome == [status |-> "none", exc |-> "", msg |-> "", value |-> <<>>]
NoCall == [op |-> "none", args |-> <<>>, out |-> NoOutcome, bytes |-> <<>>,
           prev |-> NoOutcome]

\* Line 104: DEFAULT_HASHER = HumanHasher(), the only hasher at import.
Init ==
  /\ lists = [n \in {} |-> <<>>]
  /\ hashers = <<HumanHasher_init("DEFAULT_WORDLIST").value>>
  /\ supplied = <<Deref(HumanHasher_init("DEFAULT_WORDLIST").value.wordlist)>>
  /\ last = NoCall

\* A caller builds a list from a tuple: wl = list(tuple).
MakeList(src) ==
  /\ Cardinality(DOMAIN lists) < MaxLists
  /\ LET name == ListNames[Cardinality(DOMAIN lists) + 1]
     IN lists' = [n \in DOMAIN lists \cup {name} |->
                    IF n = name THEN Tuples[src] ELSE lists[n]]
  /\ UNCHANGED <<hashers, supplied, last>>

\* A caller assigns to an item of its own list: wl[index] = word.
SetItem(name, index, word) ==
  /\ index < Len(lists[name])
  /\ lists[name][index + 1] # word
  /\ lists' = [lists EXCEPT ![name][index + 1] = word]
  /\ UNCHANGED <<hashers, supplied, last>>

\* A caller constructs a hasher: HumanHasher(wordlist).
Construct(wordlist) ==
  LET new == HumanHasher_init(wordlist) IN
  /\ last = NoCall
  /\ new.status = "return" => Len(hashers) <= MaxHashers
  /\ last' = [op |-> "HumanHasher", args |-> [wordlist |-> wordlist], out |-> new,
              bytes |-> <<>>, prev |-> NoOutcome]
  /\ IF new.status = "return"
     THEN /\ hashers' = Append(hashers, new.value)
          /\ supplied' = Append(supplied, Deref(wordlist))
     ELSE UNCHANGED <<hashers, supplied>>
  /\ UNCHANGED lists

\* A caller calls hashers[h].humanize(hexdigest, words=, separator=).
HumanizeCall(h, hexdigest, params) ==
  /\ last = NoCall
  /\ last' = [op |-> "humanize",
              args |-> [hasher |-> h, hexdigest |-> hexdigest, params |-> params],
              out |-> humanize(hashers[h], hexdigest, params),
              bytes |-> <<>>, prev |-> NoOutcome]
  /\ UNCHANGED <<lists, hashers, supplied>>

\* A caller calls hashers[h].uuid(words=, separator=); uuid4 draws `random`.
UuidCall(h, random, params) ==
  /\ last = NoCall
  /\ last' = [op |-> "uuid",
              args |-> [hasher |-> h, random |-> random, params |-> params],
              out |-> uuid(hashers[h], random, params),
              bytes |-> <<>>, prev |-> NoOutcome]
  /\ UNCHANGED <<lists, hashers, supplied>>

\* A caller builds a list `bytes` and calls HumanHasher.compress(bytes, target);
\* last.bytes is that list after the call.
CompressCall(bytes, target) ==
  LET r == compress(bytes, target) IN
  /\ last = NoCall
  /\ last' = [op |-> "compress", args |-> [bytes |-> bytes, target |-> target],
              out |-> r.out, bytes |-> r.bytes, prev |-> NoOutcome]
  /\ UNCHANGED <<lists, hashers, supplied>>

\* The caller calls compress once more on the same list, with the same target.
CompressAgain ==
  /\ last.op = "compress"
  /\ last.prev = NoOutcome
  /\ LET r == compress(last.bytes, last.args.target) IN
     last' = [last EXCEPT !.out = r.out, !.bytes = r.bytes, !.prev = last.out]
  /\ UNCHANGED <<lists, hashers, supplied>>

\* The caller is done with the outcome of its call and goes on.
Discard ==
  /\ last # NoCall
  /\ last' = NoCall
  /\ UNCHANGED <<lists, hashers, supplied>>

Construction ==
  /\ last = NoCall
  /\ \E wordlist \in TupleNames \cup DOMAIN lists : Construct(wordlist)
Humanizing ==
  /\ last = NoCall
  /\ \E h \in DOMAIN hashers, d \in Digests, p \in KwargsSets : HumanizeCall(h, d, p)
Uuids ==
  /\ last = NoCall
  /\ \E h \in DOMAIN hashers, r \in Urandom16, p \in KwargsSets : UuidCall(h, r, p)
Compressing ==
  /\ last = NoCall
  /\ \E b \in ByteLists, t \in Targets : CompressCall(b, t)

\* The calls on hashers built from tuples: the operations as functions of
\* their arguments.
Next ==
  Construction \/ Humanizing \/ Uuids \/ Compressing \/ CompressAgain \/ Discard

Spec == Init /\ [][Next]_vars

ListMaking == \E src \in TupleNames : MakeList(src)
ItemSetting ==
  \E name \in DOMAIN lists, i \in SetIndexes, w \in SetWords : SetItem(name, i, w)
HumanizingSmall ==
  /\ last = NoCall
  /\ \E h \in DOMAIN hashers, d \in SmallDigests, p \in SmallKwargs : HumanizeCall(h, d, p)

\* The lifetime of hashers among callers that also own and change the lists
\* they pass in.
NextLifetime ==
  ListMaking \/ ItemSetting \/ Construction \/ HumanizingSmall \/ Discard

SpecLifetime == Init /\ [][NextLifetime]_vars

(***************************************************************************)
(* What the claims are stated with.                                        *)
(***************************************************************************)
\* The arguments humanize works with: those given, else the documented
\* defaults (4 words, joined by '-').
WordsOf(params) == IF "words" \in params.given THEN params.words ELSE 4
SeparatorOf(params) == IF "separator" \in params.given THEN params.separator ELSE "-"
KnownParams(params) == params.given \subseteq {"words", "separator"}

FewerInput == Raise("ValueError", "Fewer input bytes than requested output")

\* The XOR of bytes[lo..hi], 1-based and inclusive.
RECURSIVE XorRange(_, _, _)
XorRange(bytes, lo, hi) ==
  IF lo > hi THEN 0 ELSE xor(bytes[lo], XorRange(bytes, lo + 1, hi))

\* Whether two strs have a character in common.
SharesChar(s, w) ==
  \E i \in 1..Len(s), j \in 1..Len(w) : SubSeq(s, i, i) = SubSeq(w, j, j)

\* At how many places sub occurs in s (for the empty sub, at every one of
\* the len(s) + 1 places, as Python's s.count('') has it).
count(s, sub) ==
  Cardinality({i \in 1..(Len(s) - Len(sub) + 1) : SubSeq(s, i, i + Len(sub) - 1) = sub})

RECURSIVE SumLen(_)
SumLen(words) == IF words = <<>> THEN 0 ELSE Len(Head(words)) + SumLen(Tail(words))

Range(f) == {f[i] : i \in DOMAIN f}

(***************************************************************************)
(* C1: for 1 <= target <= L, compress(bytes, target) returns exactly       *)
(* `target` values; with segSize = L div target, output i < target is the  *)
(* XOR of the i-th run of segSize bytes and the last output is the XOR of  *)
(* everything from (target-1)*segSize to the end, the L mod target         *)
(* left-over bytes included; the doctest's list compressed to 4 gives      *)
(* [205, 128, 156, 96].                                                    *)
(***************************************************************************)
C1_CompressSegments ==
  last.op = "compress" =>
    LET bytes == last.args.bytes
        target == last.args.target
        L == Len(bytes)
    IN /\ (1 <= target /\ target <= L) =>
            LET segSize == L \div target IN
            /\ last.out.status = "return"
            /\ Len(last.out.value) = target
            /\ \A i \in 1..(target - 1) :
                 last.out.value[i] = XorRange(bytes, (i - 1) * segSize + 1, i * segSize)
            /\ last.out.value[target] = XorRange(bytes, (target - 1) * segSize + 1, L)
       /\ (bytes = DoctestBytes /\ target = 4) =>
            last.out = Return(<<205, 128, 156, 96>>)

C1_Witness ==
  /\ last.op = "compress"
  /\ last.args.bytes = DoctestBytes
  /\ last.args.target = 4
  /\ Len(DoctestBytes) % 4 # 0
  /\ last.out = Return(<<205, 128, 156, 96>>)

(***************************************************************************)
(* C2: compress(bytes, target) fails with "Fewer input bytes than          *)
(* requested output" whenever target > len(bytes), and for target >= 1 it  *)
(* fails only then; humanize(hexdigest, words=k) fails the same way when k *)
(* exceeds the number of bytes of the parsed digest.                       *)
(***************************************************************************)
C2_FewerInputBytes ==
  /\ last.op = "compress" =>
       LET target == last.args.target
           L == Len(last.args.bytes)
       IN /\ target > L => last.out = FewerInput
          /\ target >= 1 => (last.out.status = "raise" <=> target > L)
  /\ (/\ last.op = "humanize"
      /\ KnownParams(last.args.params)
      /\ parse(last.args.hexdigest).status = "return") =>
       LET k == WordsOf(last.args.params)
           B == Len(parse(last.args.hexdigest).value)
       IN /\ k > B => last.out = FewerInput
          /\ k >= 1 => (last.out.status = "raise" <=> k > B)

C2_Witness ==
  /\ last.op = "compress"
  /\ last.args.bytes = DoctestBytes
  /\ last.args.target = 15
  /\ last.out = FewerInput

(***************************************************************************)
(* C3 as claimed: for a hasher with wordlist W, an even-length hex digest  *)
(* d of B bytes, 1 <= n <= B and a separator s, humanize returns the words *)
(* W[c_i], c = compress(parse(d), n), joined by s, and s appears exactly   *)
(* n-1 times in the result.  (Stated for the non-empty separators.)        *)
(***************************************************************************)
C3_Applies ==
  /\ last.op = "humanize"
  /\ KnownParams(last.args.params)
  /\ Len(last.args.hexdigest) % 2 = 0
  /\ parse(last.args.hexdigest).status = "return"
  /\ 1 <= WordsOf(last.args.params)
  /\ WordsOf(last.args.params) <= Len(parse(last.args.hexdigest).value)

C3_Words ==
  LET W == Deref(hashers[last.args.hasher].wordlist)
      c == compress(parse(last.args.hexdigest).value, WordsOf(last.args.params)).out.value
  IN [i \in 1..Len(c) |-> W[c[i] + 1]]

C4_ConstructionChecksLength ==
  [][(last.op = "none" /\ last'.op = "HumanHasher") =>
       LET wordlist == last'.args.wordlist IN
       /\ (Len(Deref(wordlist)) # 256) <=> (last'.out.status = "raise")
       /\ last'.out.status = "raise" =>
            /\ last'.out = Raise("ValueError", "Wordlist must have exactly 256 items")
            /\ hashers' = hashers
            /\ lists' = lists
       /\ last'.out.status = "return" =>
            /\ Len(hashers') = Len(hashers) + 1
            /\ SubSeq(hashers', 1, Len(hashers)) = hashers
            /\ hashers'[Len(hashers')].wordlist = wordlist
            /\ lists' = lists]_vars

C4_Witness ==
  /\ last.op = "HumanHasher"
  /\ Len(Deref(last.args.wordlist)) = 255
  /\ last.out = Raise("ValueError", "Wordlist must have exactly 256 items")
  /\ Len(hashers) = 2
  /\ hashers[1].wordlist = "DEFAULT_WORDLIST"

(***************************************************************************)
(* C5: once a hasher is constructed its wordlist never changes, whatever   *)
(* the callers do afterwards (the caller changing the sequence it passed   *)
(* in included): the hasher's wordlist is the 256 entries supplied at      *)
(* construction, so a humanize call with the arguments of an earlier one   *)
(* returns what that one returned.                                         *)
(***************************************************************************)
C5_WordlistNeverChanges ==
  /\ \A k \in DOMAIN hashers : Deref(hashers[k].wordlist) = supplied[k]
  /\ last.op = "humanize" =>
       last.out = humanize(hashers[last.args.hasher], last.args.hexdigest,
                           last.args.params)

(***************************************************************************)
(* C6: humanize never silently truncates or pads: when it returns a        *)
(* result, every character of the hex string went into the parsed bytes,   *)
(* two characters to the byte (so a string of odd length gets no result).  *)
(***************************************************************************)
C6_NoSilentTruncation ==
  (last.op = "humanize" /\ last.out.status = "return") =>
    /\ Len(last.args.hexdigest) % 2 = 0
    /\ Len(last.args.hexdigest) = 2 * Len(parse(last.args.hexdigest).value)

(***************************************************************************)
(* C7: with the default wordlist, humanize('60ad8d0d871b6095808297') with  *)
(* 4 words and '-' returns 'sodium-magnesium-nineteen-hydrogen'.           *)
(***************************************************************************)
C7_DoctestHumanize ==
  (/\ last.op = "humanize"
   /\ hashers[last.args.hasher].wordlist = "DEFAULT_WORDLIST"
   /\ last.args.hexdigest = DoctestDigest
   /\ KnownParams(last.args.params)
   /\ WordsOf(last.args.params) = 4
   /\ SeparatorOf(last.args.params) = "-") =>
    last.out = Return("sodium-magnesium-nineteen-hydrogen")

C9_UuidIsHumanize ==
  last.op = "uuid" =>
    LET self == hashers[last.args.hasher]
        params == last.args.params
        bare == hex(uuid4(last.args.random))
        human == humanize(self, bare, params)
    IN /\ Len(bare) = 32
       /\ \A i \in 1..Len(bare) :
            \E j \in 1..Len(HexDigits) : SubSeq(bare, i, i) = SubSeq(HexDigits, j, j)
       /\ human.status = "raise" => last.out = human
       /\ human.status = "return" => last.out = Return(<<human.value, bare>>)
       /\ (KnownParams(params) /\ WordsOf(params) > 16) => last.out = FewerInput
       /\ (KnownParams(params) /\ 1 <= WordsOf(params) /\ WordsOf(params) <= 16) =>
            /\ last.out.status = "return"
            /\ LET c == compress(parse(last.out.value[2]).value,
                                  WordsOf(params)).out.value
               IN /\ Len(c) = WordsOf(params)
                  /\ last.out.value[1] =
                       join(SeparatorOf(params),
                            [i \in 1..WordsOf(params) |->
                               Deref(self.wordlist)[c[i] + 1]])

C9_Witness ==
  /\ last.op = "uuid"
  /\ last.args.params.given = {}
  /\ last.out.status = "return"
  /\ Len(last.out.value[2]) = 32
  /\ SubSeq(last.out.value[2], 13, 13) = "4"
  /\ last.out.value[1] = humanize(hashers[last.args.hasher], last.out.value[2],
                                  Kwargs({"words"}, 4, "")).value

(***************************************************************************)
(* C10: the number of output words must be at least 1: for every list of   *)
(* bytes, the empty one included, and every target <= 0, compress does not *)
(* return a result, and humanize with words <= 0 returns no string.        *)
(***************************************************************************)
C10_NoWordsNoResult ==
  /\ (last.op = "compress" /\ last.args.target <= 0) => last.out.status = "raise"
  /\ (/\ last.op = "humanize"
      /\ "words" \in last.args.params.given
      /\ last.args.params.words <= 0) => last.out.status = "raise"

C10_Witness ==
  /\ last.op = "compress"
  /\ last.args.target < 0
  /\ last.args.bytes # <<>>
  /\ last.out = Raise("IndexError", "list index out of range")
====
